---------------------------- MODULE Spec2Model ----------------------------
(***************************************************************************)
(* A model of the resume scoring engine (scoring_engine.py) and of the     *)
(* text and external-service helpers it uses (nlp_processor.py).           *)
(*                                                                         *)
(* Numbers.  Python floats are modelled in fixed point: one score point    *)
(* is Unit model units, so every quotient the engine forms on the bounded  *)
(* inputs (n/1 .. n/6) and every weighted sum is exact.  round(x, 2)       *)
(* becomes rounding to the nearest multiple of Cent.                       *)
(*                                                                         *)
(* Text.  A text is modelled by what the extractors read from it: the      *)
(* vocabulary skills it contains, the entities the NER pass reports (in    *)
(* order), the integers the experience patterns capture and the education  *)
(* levels whose keywords occur.                                            *)
(*                                                                         *)
(* External services.  The replies of the chat-completion service and the  *)
(* outcome of the TF-IDF fit are inputs of a call, drawn in Init.          *)
(*                                                                         *)
(* Batches.  BatchProcessor.process_resume_batch (batch_processor.py) is   *)
(* modelled thread by thread under SpecBatch: the calling thread, the      *)
(* workers of the ThreadPoolExecutor, the futures, and the one vectorizer  *)
(* of the one ResumeScorer the workers share.                              *)
(***************************************************************************)
EXTENDS Integers, Sequences, FiniteSets, TLC

VARIABLES
    openai_client,     \* nlp_processor.openai_client: TRUE iff a client is configured
    op,                \* the function being called
    pc,                \* "call" before the function runs, "done" after it returned
    resume_data,       \* argument: the resume dict
    job_requirements,  \* argument: the job requirements dict
    relevance_arg,     \* argument of determine_verdict
    tfidf_reply,       \* outcome of TfidfVectorizer.fit_transform + cosine_similarity
    judge_reply,       \* reply of the chat completion in analyze_resume_semantic
    suggest_reply,     \* reply of the chat completion in generate_improvement_suggestions
    result,            \* what the function returned
    total_files,       \* len(uploaded_files); the files are 0 .. total_files-1
    max_workers,       \* BatchProcessor.max_workers
    next_file,         \* index of the next file the submit loop submits
    work_queue,        \* the executor's queue of submitted, unstarted tasks
    worker,            \* per worker thread: the file it processes and where it is
    future,            \* per file: the state of its future
    results,           \* the results list of process_resume_batch
    completed,         \* the completed counter of process_resume_batch
    progress,          \* the calls of progress_callback so far
    fitted_by,         \* the file whose corpus self.scorer.tfidf_vectorizer was last fit on
    saved_resumes,     \* files whose resume row is in the database
    saved_evaluations, \* files whose evaluation row is in the database
    calls,             \* the extractor calls made so far: function, text, value
    job_text,          \* argument of parse_job_description_rule_based
    session_state,     \* st.session_state: the keys it holds and their values
    users,             \* the rows of the users table, by id
    user_sessions,     \* the rows of the user_sessions table
    now,               \* the clock, in hours
    credentials        \* arguments of login_user: username and password

batch_vars == <<total_files, max_workers, next_file, work_queue, worker, future,
                results, completed, progress, fitted_by, saved_resumes,
                saved_evaluations>>

auth_vars == <<session_state, users, user_sessions, now, credentials>>

vars == <<openai_client, op, pc, resume_data, job_requirements, relevance_arg,
          tfidf_reply, judge_reply, suggest_reply, result, batch_vars, calls,
          job_text, auth_vars>>

-----------------------------------------------------------------------------
(* Bounds of the model *)

MaxRequired == 2
MaxPreferred == 1
MaxYears == 5
MaxSuggestions == 2
NumFiles == 2
MaxWorkers == 2
MaxCalls == 3
MaxLines == 2
MaxJobSkills == 6
\* the clock advances TickHours at a time, up to MaxHours
TickHours == 12
MaxHours == 48

-----------------------------------------------------------------------------
(* Fixed-point numbers *)

Unit == 60 * 1000
Cent == Unit \div 100
Points(n) == n * Unit

Min(a, b) == IF a <= b THEN a ELSE b
Max(a, b) == IF a >= b THEN a ELSE b
Abs(a) == IF a >= 0 THEN a ELSE 0 - a

\* round(x, 2): nearest hundredth, an exact tie going to the even hundredth
round2(x) ==
    LET q == x \div Cent
        r == x % Cent
    IN  IF 2 * r < Cent THEN q * Cent
        ELSE IF 2 * r > Cent THEN (q + 1) * Cent
        ELSE IF q % 2 = 0 THEN q * Cent ELSE (q + 1) * Cent

\* dict.get(key, default)
Get(d, key, default) == IF key \in DOMAIN d THEN d[key] ELSE default

-----------------------------------------------------------------------------
(* Strings: the skill names of the model and their characters *)

NameChars ==
    [n \in {"python", "sql", "aws", "node.js", "node js", "Node JS", "AWS",
            "java", "docker", "react"} |->
        CASE n = "python"  -> <<"p", "y", "t", "h", "o", "n">>
          [] n = "sql"     -> <<"s", "q", "l">>
          [] n = "aws"     -> <<"a", "w", "s">>
          [] n = "node.js" -> <<"n", "o", "d", "e", ".", "j", "s">>
          [] n = "node js" -> <<"n", "o", "d", "e", " ", "j", "s">>
          [] n = "Node JS" -> <<"N", "o", "d", "e", " ", "J", "S">>
          [] n = "AWS"     -> <<"A", "W", "S">>
          [] n = "java"    -> <<"j", "a", "v", "a">>
          [] n = "docker"  -> <<"d", "o", "c", "k", "e", "r">>
          [] n = "react"   -> <<"r", "e", "a", "c", "t">>]

Names == DOMAIN NameChars

LowerChar(c) ==
    CASE c = "A" -> "a" [] c = "W" -> "w" [] c = "S" -> "s"
      [] c = "N" -> "n" [] c = "J" -> "j" [] OTHER -> c

\* str.lower()
lower(s) ==
    CHOOSE t \in Names :
        NameChars[t] = [i \in 1..Len(NameChars[s]) |-> LowerChar(NameChars[s][i])]

RECURSIVE LcsLen(_, _)
LcsLen(a, b) ==
    IF a = <<>> \/ b = <<>> THEN 0
    ELSE IF Head(a) = Head(b) THEN 1 + LcsLen(Tail(a), Tail(b))
    ELSE Max(LcsLen(Tail(a), b), LcsLen(a, Tail(b)))

\* fuzz.ratio(s1, s2): 100 * 2M / T rounded to an integer, M the matched
\* characters and T the total length of both strings
fuzz_ratio_of(s1, s2) ==
    LET a == NameChars[s1]
        b == NameChars[s2]
        T == Len(a) + Len(b)
    IN  IF s1 = s2 THEN 100
        ELSE IF Len(a) = 0 \/ Len(b) = 0 THEN 0
        ELSE (2 * 200 * LcsLen(a, b) + T) \div (2 * T)

RatioTable == [s1 \in Names, s2 \in Names |-> fuzz_ratio_of(s1, s2)]

fuzz_ratio(s1, s2) == RatioTable[s1, s2]

-----------------------------------------------------------------------------
(* nlp_processor.py: the attribute extractor *)

\* the part of nlp_processor.TECHNICAL_SKILLS the model's texts may contain
TECHNICAL_SKILLS == {"python", "sql", "aws", "node.js", "java", "docker", "react"}

RECURSIVE add_entities(_, _)
\* lines 49-53: an ORG/PRODUCT entity longer than 2 characters is added unless
\* its lowercase form is already among the found skills
add_entities(found_skills, ents) ==
    IF ents = <<>> THEN found_skills
    ELSE LET ent == Head(ents)
             keep == /\ Len(NameChars[ent]) > 2
                     /\ lower(ent) \notin {lower(s) : s \in found_skills}
         IN  add_entities(IF keep THEN found_skills \cup {ent} ELSE found_skills,
                          Tail(ents))

\* extract_skills_from_text whose found_skills list outlives the call
extract_skills_remembering(text) ==
    add_entities({skill \in TECHNICAL_SKILLS : skill \in text.mentions}, text.ents)
    \cup UNION {calls[i].value : i \in {j \in DOMAIN calls :
                                         calls[j].fn = "extract_skills_from_text"}}

\* list(set(found_skills)): the distinct skills, as a set
extract_skills_from_text(text) ==
    add_entities({skill \in TECHNICAL_SKILLS : skill \in text.mentions}, text.ents)

SetMax(S) == CHOOSE m \in S : \A x \in S : x <= m

\* max(years) if years else 0
extract_experience_years(text) ==
    IF text.years = {} THEN 0 ELSE SetMax(text.years)

level_hierarchy == <<"phd", "masters", "bachelors", "diploma", "high_school">>

\* the first level of level_hierarchy whose keywords occur in the text
extract_education_level(text) ==
    IF \E i \in 1..Len(level_hierarchy) : level_hierarchy[i] \in text.edu_keywords
    THEN level_hierarchy[CHOOSE i \in 1..Len(level_hierarchy) :
            /\ level_hierarchy[i] \in text.edu_keywords
            /\ \A j \in 1..(i - 1) : level_hierarchy[j] \notin text.edu_keywords]
    ELSE "unknown"

RECURSIVE section_of(_, _)
\* lines 153-159: current_section at line i, set by the last line up to i
\* that contains an indicator ("none": the line contains neither kind)
section_of(lines, i) ==
    IF i = 0 THEN "unknown"
    ELSE IF lines[i].indicator # "none" THEN lines[i].indicator
    ELSE section_of(lines, i - 1)

\* lines 161-167: the extracted skills that occur in a line of the section
section_skills(lines, skills, section) ==
    UNION {skills \cap lines[i].mentions :
             i \in {j \in 1..Len(lines) : section_of(lines, j) = section}}

\* parse_job_description_rule_based(job_text); front is the set of skills in
\* the first half of the list extract_skills_from_text returned, whose order
\* is that of a set.  The skill lists are modelled as sets, and
\* key_responsibilities is left out.
parse_job_description_rule_based(text, front) ==
    LET skills == extract_skills_from_text(text)
        required_skills == section_skills(text.lines, skills, "required")
        preferred_skills == section_skills(text.lines, skills, "preferred")
        no_separation == required_skills = {} /\ preferred_skills = {}
        split == no_separation /\ Cardinality(skills) > 5
    IN  [required_skills |-> IF split THEN front
                             ELSE IF no_separation THEN skills
                             ELSE required_skills,
         preferred_skills |-> IF split THEN skills \ front
                              ELSE IF no_separation THEN {}
                              ELSE preferred_skills,
         experience_required |-> extract_experience_years(text),
         education_required |-> extract_education_level(text)]

-----------------------------------------------------------------------------
(* scoring_engine.py: ResumeScorer *)

\* Outcomes of a call: a returned value or a raised exception
Return(v) == [raised |-> FALSE, value |-> v]
Raise(e) == [raised |-> TRUE, exc |-> e]

FUZZY_THRESHOLD == 80

education_hierarchy ==
    [l \in {"high_school", "diploma", "bachelors", "masters", "phd", "unknown"} |->
        CASE l = "high_school" -> 1 [] l = "diploma" -> 2 [] l = "bachelors" -> 3
          [] l = "masters" -> 4 [] l = "phd" -> 5 [] l = "unknown" -> 0]

\* lines 23-24: len(set(lowered resume skills) & set(lowered job skills))
exact_matches(resume_skills, job_skills) ==
    Cardinality({lower(s) : s \in resume_skills}
                \cap {lower(job_skills[i]) : i \in 1..Len(job_skills)})

\* lines 30-40: one match per resume skill that has some job skill above the
\* threshold (the inner loop breaks at the first one)
fuzzy_matches(resume_skills, job_skills) ==
    Cardinality({rs \in resume_skills :
        \E i \in 1..Len(job_skills) :
            fuzz_ratio(lower(rs), lower(job_skills[i])) > FUZZY_THRESHOLD})

\* skill_score with the vacuous-truth reading of an empty list: all of no
\* skills are matched
skill_score_vacuous(matched, job_skills) ==
    IF Len(job_skills) = 0 THEN Points(100)
    ELSE Min(Points(100), (matched * Points(100)) \div Len(job_skills))

\* lines 43-47: min(100, matched / total * 100), total 1 for an empty list
skill_score(matched, job_skills) ==
    LET total == IF Len(job_skills) > 0 THEN Len(job_skills) ELSE 1
    IN  Min(Points(100), (matched * Points(100)) \div total)

\* experience_score_of without the cap of the ratio at 1
experience_score_uncapped(resume_experience, required_experience) ==
    IF required_experience = 0 THEN Points(100)
    ELSE (resume_experience * Points(100)) \div required_experience

\* lines 62-66
experience_score_of(resume_experience, required_experience) ==
    IF required_experience = 0 THEN Points(100)
    ELSE Min(Points(100), (resume_experience * Points(100)) \div required_experience)

\* education_score_of that gives credit for the required level only
education_score_same_level(resume_education, required_education) ==
    IF Get(education_hierarchy, required_education, 0) = 0 THEN Points(100)
    ELSE IF resume_education = required_education THEN Points(100)
    ELSE 0

\* education_score_of that gives no credit against a requirement it does not
\* know
education_score_known_only(resume_education, required_education) ==
    LET resume_edu_level == Get(education_hierarchy, resume_education, 0)
        required_edu_level == Get(education_hierarchy, required_education, 0)
    IN  IF required_education \notin DOMAIN education_hierarchy THEN 0
        ELSE IF required_edu_level = 0 THEN Points(100)
        ELSE IF resume_edu_level >= required_edu_level THEN Points(100)
        ELSE Max(0, (resume_edu_level * Points(100)) \div required_edu_level)

\* lines 87-95
education_score_of(resume_education, required_education) ==
    LET resume_edu_level == Get(education_hierarchy, resume_education, 0)
        required_edu_level == Get(education_hierarchy, required_education, 0)
    IN  IF required_edu_level = 0 THEN Points(100)
        ELSE IF resume_edu_level >= required_edu_level THEN Points(100)
        ELSE Max(0, (resume_edu_level * Points(100)) \div required_edu_level)

\* lines 104-109, in tenths
hard_weights == [required_skills |-> 5, preferred_skills |-> 2,
                 experience |-> 2, education |-> 1]

\* total_hard_score_of with the weights dropped: a plain average
total_hard_score_unweighted(required, preferred, experience, education) ==
    (required + preferred + experience + education) \div 4

\* lines 111-116
total_hard_score_of(required, preferred, experience, education) ==
    (required * hard_weights.required_skills
     + preferred * hard_weights.preferred_skills
     + experience * hard_weights.experience
     + education * hard_weights.education) \div 10

\* calculate_hard_match_score(resume_data, job_requirements): raises KeyError
\* when resume_data has no 'extracted_text', else returns (score, breakdown)
calculate_hard_match_score(resume, job) ==
    IF "extracted_text" \notin DOMAIN resume THEN Raise("KeyError")
    ELSE
    LET text == resume.extracted_text
        resume_skills == extract_skills_from_text(text)
        required_skills == Get(job, "required_skills", <<>>)
        preferred_skills == Get(job, "preferred_skills", <<>>)
        matched_required == exact_matches(resume_skills, required_skills)
                            + fuzzy_matches(resume_skills, required_skills)
        matched_preferred == exact_matches(resume_skills, preferred_skills)
                             + fuzzy_matches(resume_skills, preferred_skills)
        required_skill_score == skill_score(matched_required, required_skills)
        preferred_skill_score == skill_score(matched_preferred, preferred_skills)
        resume_experience == extract_experience_years(text)
        required_experience == Get(job, "experience_required", 0)
        experience_score == experience_score_of(resume_experience, required_experience)
        resume_education == extract_education_level(text)
        required_education == Get(job, "education_required", "unknown")
        education_score == education_score_of(resume_education, required_education)
    IN  Return([
          score |-> total_hard_score_of(required_skill_score, preferred_skill_score,
                                        experience_score, education_score),
          scores |-> [
            skills |-> [required_score |-> required_skill_score,
                        preferred_score |-> preferred_skill_score,
                        matched_required |-> matched_required,
                        matched_preferred |-> matched_preferred,
                        total_required |-> IF Len(required_skills) > 0
                                           THEN Len(required_skills) ELSE 1,
                        total_preferred |-> IF Len(preferred_skills) > 0
                                            THEN Len(preferred_skills) ELSE 1],
            experience |-> [score |-> experience_score,
                            resume_years |-> resume_experience,
                            required_years |-> required_experience],
            education |-> [score |-> education_score,
                           resume_level |-> resume_education,
                           required_level |-> required_education]]])

\* missing_of that accepts an identical resume skill only
missing_of_exact(resume_skills, job_skills) ==
    SelectSeq([i \in 1..Len(job_skills) |-> lower(job_skills[i])],
              LAMBDA skill : skill \notin {lower(rs) : rs \in resume_skills})

\* lines 150-157: the lowercased job skills no resume skill matches above the
\* threshold, in the job's order
missing_of(resume_skills, job_skills) ==
    SelectSeq([i \in 1..Len(job_skills) |-> lower(job_skills[i])],
              LAMBDA skill : ~ \E rs \in resume_skills :
                  fuzz_ratio(skill, lower(rs)) > FUZZY_THRESHOLD)

\* identify_missing_skills(resume_data, job_requirements)
identify_missing_skills(resume, job) ==
    IF "extracted_text" \notin DOMAIN resume THEN Raise("KeyError")
    ELSE
    LET text == resume.extracted_text
        resume_skills == extract_skills_from_text(text)
        resume_experience == extract_experience_years(text)
        required_experience == Get(job, "experience_required", 0)
        resume_education == extract_education_level(text)
        required_education == Get(job, "education_required", "unknown")
    IN  Return([
          missing_required_skills |->
              missing_of(resume_skills, Get(job, "required_skills", <<>>)),
          missing_preferred_skills |->
              missing_of(resume_skills, Get(job, "preferred_skills", <<>>)),
          experience_gap_years |-> Max(0, required_experience - resume_experience),
          education_gap |-> Get(education_hierarchy, required_education, 0)
                            > Get(education_hierarchy, resume_education, 0),
          current_education |-> resume_education,
          required_education |-> required_education])

\* determine_verdict with exclusive thresholds
determine_verdict_exclusive(relevance_score) ==
    IF relevance_score > Points(75) THEN "High"
    ELSE IF relevance_score > Points(50) THEN "Medium"
    ELSE "Low"

\* determine_verdict(relevance_score)
determine_verdict(relevance_score) ==
    IF relevance_score >= Points(75) THEN "High"
    ELSE IF relevance_score >= Points(50) THEN "Medium"
    ELSE "Low"

-----------------------------------------------------------------------------
(* nlp_processor.py: the external judge and the suggestion generator *)

\* Python values whose type the code depends on
Num(n) == [type |-> "number", n |-> n]
Str(t) == [type |-> "string", s |-> t]
Dict(f) == [type |-> "object", fields |-> f]
Array(items) == [type |-> "array", items |-> items]

\* Replies of openai_client.chat.completions.create followed by json.loads:
\* the call or the parse raises, the content is empty, or the content parses
ReplyRaises == [kind |-> "raise"]
ReplyEmpty == [kind |-> "empty"]
ReplyJson(v) == [kind |-> "json", value |-> v]
NotCalled == [kind |-> "not_called"]

\* analyze_resume_semantic whose missing-client fallback scores 0, not 50
analyze_resume_semantic_zero(client, reply) ==
    IF ~client
    THEN Dict([semantic_score |-> Num(0),
               analysis |-> "AI analysis not available - API key not configured",
               strengths |-> <<>>, gaps |-> <<>>])
    ELSE IF reply.kind = "raise"
    THEN Dict([semantic_score |-> Num(Points(50)),
               analysis |-> "Error in AI analysis",
               strengths |-> <<>>, gaps |-> <<>>])
    ELSE IF reply.kind = "empty" THEN Dict(<<>>)
    ELSE reply.value

\* analyze_resume_semantic(resume_text, job_requirements)
analyze_resume_semantic(client, reply) ==
    IF ~client
    THEN Dict([semantic_score |-> Num(Points(50)),
               analysis |-> "AI analysis not available - API key not configured",
               strengths |-> <<>>, gaps |-> <<>>])
    ELSE IF reply.kind = "raise"
    THEN Dict([semantic_score |-> Num(Points(50)),
               analysis |-> "Error in AI analysis",
               strengths |-> <<>>, gaps |-> <<>>])
    ELSE IF reply.kind = "empty" THEN Dict(<<>>)
    ELSE reply.value

FallbackNoClient ==
    <<"Consider acquiring the missing technical skills identified in the analysis",
      "Highlight relevant project experience more prominently",
      "Add specific metrics and achievements to demonstrate impact">>

FallbackOnError ==
    <<"Consider acquiring the missing technical skills",
      "Add more specific project details and achievements",
      "Improve resume format and structure for better readability">>

\* generate_improvement_suggestions(resume_analysis, job_requirements,
\* missing_skills): result.get('suggestions', []) of the parsed reply; the
\* AttributeError of a reply that is no object is caught like any other
generate_improvement_suggestions(client, reply) ==
    IF ~client THEN FallbackNoClient
    ELSE IF reply.kind = "raise" THEN FallbackOnError
    ELSE IF reply.kind = "empty" THEN <<>>
    ELSE IF reply.value.type # "object" THEN FallbackOnError
    ELSE Get(reply.value.fields, "suggestions", <<>>)

-----------------------------------------------------------------------------
(* scoring_engine.py: the lexical scorer and the composite scorer *)

\* calculate_semantic_match_score whose except clause returns 0
calculate_semantic_match_score_zero(resume, reply) ==
    IF "extracted_text" \notin DOMAIN resume THEN 0
    ELSE IF reply.raised THEN 0
    ELSE reply.value

\* calculate_semantic_match_score(resume_data, job_description_text): the
\* cosine similarity times 100, or 50 when anything inside the try raises
\* (a resume without 'extracted_text', a vectorizer with an empty vocabulary)
calculate_semantic_match_score(resume, reply) ==
    IF "extracted_text" \notin DOMAIN resume THEN Points(50)
    ELSE IF reply.raised THEN Points(50)
    ELSE reply.value

\* lines 211-214, in tenths
relevance_weights == [hard_match |-> 6, semantic_match |-> 4]

\* line 208
combined_semantic_score_of(tfidf_semantic_score, ai_semantic_score) ==
    (tfidf_semantic_score * 4 + ai_semantic_score * 6) \div 10

\* relevance_score_of with equal weights
relevance_score_unweighted(hard_match_score, combined_semantic_score) ==
    (hard_match_score * 5 + combined_semantic_score * 5) \div 10

\* lines 216-219
relevance_score_of(hard_match_score, combined_semantic_score) ==
    (hard_match_score * relevance_weights.hard_match
     + combined_semantic_score * relevance_weights.semantic_match) \div 10

\* error_result that keeps the scoring weights next to the error
error_result_with_weights(e) ==
    [relevance_score |-> 0, hard_match_score |-> 0, semantic_match_score |-> 0,
     verdict |-> "Low", missing_skills |-> <<>>,
     improvement_suggestions |-> <<"Error occurred during evaluation">>,
     evaluation_details |-> [error |-> e, scoring_weights |-> relevance_weights]]

\* lines 254-262
error_result(e) ==
    [relevance_score |-> 0, hard_match_score |-> 0, semantic_match_score |-> 0,
     verdict |-> "Low", missing_skills |-> <<>>,
     improvement_suggestions |-> <<"Error occurred during evaluation">>,
     evaluation_details |-> [error |-> e]]

\* lines 197-250: the body of the try
evaluate_resume_try(client, resume, job, tfidf, judge, suggest) ==
    LET hard == calculate_hard_match_score(resume, job)
    IN  IF hard.raised THEN hard ELSE
    LET hard_match_score == hard.value.score
        tfidf_semantic_score == calculate_semantic_match_score(resume, tfidf)
        ai_semantic_analysis == analyze_resume_semantic(client, judge)
    IN  IF ai_semantic_analysis.type # "object" THEN Raise("AttributeError") ELSE
    LET ai_semantic_score ==
            Get(ai_semantic_analysis.fields, "semantic_score", Num(Points(50)))
    IN  IF ai_semantic_score.type # "number" THEN Raise("TypeError") ELSE
    LET combined_semantic_score ==
            combined_semantic_score_of(tfidf_semantic_score, ai_semantic_score.n)
        relevance_score == relevance_score_of(hard_match_score, combined_semantic_score)
        missing == identify_missing_skills(resume, job)
    IN  IF missing.raised THEN missing ELSE
    LET missing_elements == missing.value
        verdict == determine_verdict(relevance_score)
        improvement_suggestions == generate_improvement_suggestions(client, suggest)
    IN  Return([
          relevance_score |-> round2(relevance_score),
          hard_match_score |-> round2(hard_match_score),
          semantic_match_score |-> round2(combined_semantic_score),
          verdict |-> verdict,
          missing_skills |-> missing_elements.missing_required_skills
                             \o missing_elements.missing_preferred_skills,
          improvement_suggestions |-> improvement_suggestions,
          evaluation_details |-> [
            hard_match_details |-> hard.value.scores,
            tfidf_semantic_score |-> tfidf_semantic_score,
            ai_semantic_analysis |-> ai_semantic_analysis,
            combined_semantic_score |-> combined_semantic_score,
            scoring_weights |-> relevance_weights,
            missing_elements |-> missing_elements]])

\* evaluate_resume without its except clause
evaluate_resume_unguarded(client, resume, job, tfidf, judge, suggest) ==
    evaluate_resume_try(client, resume, job, tfidf, judge, suggest)

\* evaluate_resume that rejects job requirements lacking a field
evaluate_resume_strict(client, resume, job, tfidf, judge, suggest) ==
    IF ~ ({"required_skills", "preferred_skills", "experience_required",
           "education_required"} \subseteq DOMAIN job)
    THEN Return(error_result("KeyError"))
    ELSE LET out == evaluate_resume_try(client, resume, job, tfidf, judge, suggest)
         IN  IF out.raised THEN Return(error_result(out.exc)) ELSE out

\* evaluate_resume(resume_data, job_description_text, job_requirements):
\* except Exception turns whatever the body raised into the error result
evaluate_resume(client, resume, job, tfidf, judge, suggest) ==
    LET out == evaluate_resume_try(client, resume, job, tfidf, judge, suggest)
    IN  IF out.raised THEN Return(error_result(out.exc)) ELSE out

-----------------------------------------------------------------------------
(* The inputs of the model *)

Text(mentions, ents, years, edu_keywords) ==
    [mentions |-> mentions, ents |-> ents, years |-> years,
     edu_keywords |-> edu_keywords]

Resume(text) == [extracted_text |-> text]

Job(required, preferred, experience, education) ==
    [required_skills |-> required, preferred_skills |-> preferred,
     experience_required |-> experience, education_required |-> education]

\* a job description: its lines, each with the section indicator it contains
\* and the vocabulary skills that occur in it, and what the extractors read
\* from the whole text
JobLine(indicator, mentions) == [indicator |-> indicator, mentions |-> mentions]

JobText(lines, years, edu_keywords) ==
    [lines |-> lines,
     mentions |-> UNION {lines[i].mentions : i \in 1..Len(lines)},
     ents |-> <<>>, years |-> years, edu_keywords |-> edu_keywords]

NoJobText == JobText(<<>>, {}, {})

\* a resume dict without the 'extracted_text' key
ResumeWithoutText == [filename |-> "resume.pdf"]

Levels == {"high_school", "diploma", "bachelors", "masters", "phd"}

\* the skills a job posting may name
JobVocab == {"python", "aws", "sql", "node.js", "AWS"}

SeqsUpTo(S, n) == UNION {[1..k -> S] : k \in 0..n}

\* the end-to-end scenario of the specification
ScenarioText == Text({"python", "sql"}, <<>>, {5}, {"bachelors"})
ScenarioJob == Job(<<"python", "aws">>, <<"sql">>, 3, "bachelors")

\* resumes and jobs that differ in their skills only
SkillTexts ==
    {Text(m, e, {5}, {"bachelors"}) :
        m \in SUBSET {"python", "sql"}, e \in {<<>>, <<"Node JS">>, <<"AWS">>}}
SkillJobs ==
    {Job(r, p, 3, "bachelors") :
        r \in SeqsUpTo(JobVocab, MaxRequired), p \in SeqsUpTo(JobVocab, MaxPreferred)}

\* ... in their years of experience only
YearTexts ==
    {Text({"python", "sql"}, <<>>, y, {"bachelors"}) :
        y \in {S \in SUBSET (0..MaxYears) : Cardinality(S) <= 2}}
YearJobs == {Job(<<"python", "aws">>, <<"sql">>, y, "bachelors") : y \in 0..MaxYears}

\* ... in their education only
EducationTexts == {Text({"python", "sql"}, <<>>, {5}, k) : k \in SUBSET Levels}
EducationJobs ==
    {Job(<<"python", "aws">>, <<"sql">>, 3, l) : l \in Levels \cup {"unknown"}}

\* education_required values that are none of the six level names
FreeTextEducation == {"Bachelor's degree in Computer Science", "Masters", ""}
FreeTextEducationJobs ==
    {Job(<<"python", "aws">>, <<"sql">>, 3, e) : e \in FreeTextEducation}

\* the (resume, job) pairs calculate_hard_match_score and
\* identify_missing_skills are called with
HardMatchCalls ==
    ({Resume(t) : t \in SkillTexts} \X SkillJobs)
    \cup ({Resume(t) : t \in YearTexts} \X YearJobs)
    \cup ({Resume(t) : t \in EducationTexts} \X EducationJobs)
    \cup ({Resume(t) : t \in EducationTexts} \X FreeTextEducationJobs)
    \cup {<<ResumeWithoutText, ScenarioJob>>}

\* the resumes and jobs evaluate_resume is called with
EvalResumes ==
    {Resume(ScenarioText),
     Resume(Text({}, <<>>, {}, {})),
     Resume(Text({"python"}, <<"Node JS">>, {1}, {"diploma"})),
     ResumeWithoutText}
JobFields ==
    {"required_skills", "preferred_skills", "experience_required",
     "education_required"}

\* the job dict with some of its keys only
Restrict(job, keys) == [k \in keys |-> job[k]]

\* job postings that lack fields
IncompleteJobs ==
    {Restrict(Job(<<"node.js", "sql">>, <<"AWS">>, 2, "masters"), keys) :
        keys \in (SUBSET JobFields) \ {JobFields}}

EvalJobs ==
    {ScenarioJob,
     Job(<<>>, <<>>, 0, "unknown"),
     Job(<<"node.js", "sql">>, <<"AWS">>, 2, "masters"),
     Job(<<"python", "aws">>, <<"sql">>, 3, "Masters")}
    \cup IncompleteJobs

Hundredths(n) == n * Cent

\* outcomes of the TF-IDF fit and cosine similarity: ValueError (caught), or a
\* similarity between 0 and 1, times 100
TfidfReplies ==
    {Raise("ValueError")}
    \cup {Return(Hundredths(h)) : h \in {0, 1874, 3333, 6250, 10000}}

\* semantic_score values the judge may send; the service is asked for 0..100
\* and nothing enforces it
JudgeScores == {Points(n) : n \in {0 - 20, 0, 50, 90, 100, 150}}

JudgeObject(f) ==
    Dict(f @@ [analysis |-> "analysis", strengths |-> <<"strength">>, gaps |-> <<"gap">>])

JudgeReplies ==
    {ReplyRaises, ReplyEmpty, ReplyJson(Array(<<>>)),
     ReplyJson(JudgeObject(<<>>)),
     ReplyJson(JudgeObject([semantic_score |-> Str("high")]))}
    \cup {ReplyJson(JudgeObject([semantic_score |-> Num(n)])) : n \in JudgeScores}

SuggestionList(n) == [i \in 1..n |-> IF i = 1 THEN "suggestion 1"
                                      ELSE IF i = 2 THEN "suggestion 2"
                                      ELSE "another suggestion"]

SuggestReplies ==
    {ReplyRaises, ReplyEmpty, ReplyJson(Array(<<>>)), ReplyJson(Dict(<<>>))}
    \cup {ReplyJson(Dict([suggestions |-> SuggestionList(n)])) : n \in 0..MaxSuggestions}

\* the scores determine_verdict is called with: every thousandth within half a
\* point of a threshold, and every whole number of -MaxScore .. MaxScore
Thousandth == Unit \div 1000
MaxScore == 150
VerdictScores ==
    {Points(n) : n \in (0 - MaxScore)..MaxScore}
    \cup {Points(75) + k * Thousandth : k \in (0 - 500)..500}
    \cup {Points(50) + k * Thousandth : k \in (0 - 500)..500}

Pending == Return("pending")

-----------------------------------------------------------------------------
(* The state machine: one call of one function *)

NoArgs ==
    /\ resume_data = ResumeWithoutText
    /\ job_requirements = Job(<<>>, <<>>, 0, "unknown")
    /\ relevance_arg = 0
    /\ tfidf_reply = Raise("not_called")

InitEvaluate ==
    /\ op = "evaluate_resume"
    /\ openai_client \in BOOLEAN
    /\ resume_data \in EvalResumes
    /\ job_requirements \in EvalJobs
    /\ relevance_arg = 0
    /\ tfidf_reply \in TfidfReplies
    /\ judge_reply \in IF openai_client THEN JudgeReplies ELSE {NotCalled}
    /\ suggest_reply \in IF openai_client THEN SuggestReplies ELSE {NotCalled}

InitHardMatch ==
    /\ op \in {"calculate_hard_match_score", "identify_missing_skills"}
    /\ openai_client = FALSE
    /\ \E c \in HardMatchCalls : resume_data = c[1] /\ job_requirements = c[2]
    /\ relevance_arg = 0
    /\ tfidf_reply = Raise("not_called")
    /\ judge_reply = NotCalled
    /\ suggest_reply = NotCalled

InitVerdict ==
    /\ op = "determine_verdict"
    /\ openai_client = FALSE
    /\ resume_data = ResumeWithoutText
    /\ job_requirements = Job(<<>>, <<>>, 0, "unknown")
    /\ relevance_arg \in VerdictScores
    /\ tfidf_reply = Raise("not_called")
    /\ judge_reply = NotCalled
    /\ suggest_reply = NotCalled

InitSuggest ==
    /\ op = "generate_improvement_suggestions"
    /\ openai_client \in BOOLEAN
    /\ NoArgs
    /\ judge_reply = NotCalled
    /\ suggest_reply \in IF openai_client THEN SuggestReplies ELSE {NotCalled}

InitJudge ==
    /\ op = "analyze_resume_semantic"
    /\ openai_client \in BOOLEAN
    /\ NoArgs
    /\ judge_reply \in IF openai_client THEN JudgeReplies ELSE {NotCalled}
    /\ suggest_reply = NotCalled

InitLexical ==
    /\ op = "calculate_semantic_match_score"
    /\ openai_client = FALSE
    /\ resume_data \in EvalResumes
    /\ job_requirements = Job(<<>>, <<>>, 0, "unknown")
    /\ relevance_arg = 0
    /\ tfidf_reply \in TfidfReplies
    /\ judge_reply = NotCalled
    /\ suggest_reply = NotCalled

\* no batch is running
NoItem == 0 - 1
Idle == [item |-> NoItem, at |-> "idle"]

NoBatch ==
    /\ total_files = 0
    /\ max_workers = 1
    /\ next_file = 0
    /\ work_queue = <<>>
    /\ worker = [w \in 1..1 |-> Idle]
    /\ future = [i \in {} |-> Idle]
    /\ results = <<>>
    /\ completed = 0
    /\ progress = <<>>
    /\ fitted_by = NoItem
    /\ saved_resumes = {}
    /\ saved_evaluations = {}

\* nobody uses the login page
NoCredentials == [username |-> "", password |-> ""]
NoAuth ==
    /\ session_state = [k \in {} |-> ""]
    /\ users = [id \in {} |-> ""]
    /\ user_sessions = {}
    /\ now = 0
    /\ credentials = NoCredentials

Init ==
    /\ pc = "call"
    /\ result = Pending
    /\ NoBatch
    /\ NoAuth
    /\ calls = <<>>
    /\ job_text = NoJobText
    /\ \/ InitEvaluate
       \/ InitHardMatch
       \/ InitVerdict
       \/ InitSuggest
       \/ InitJudge
       \/ InitLexical

Frame ==
    UNCHANGED <<openai_client, op, resume_data, job_requirements, relevance_arg,
                tfidf_reply, judge_reply, suggest_reply, batch_vars, calls,
                job_text, auth_vars>>

EvaluateResume ==
    /\ pc = "call"
    /\ op = "evaluate_resume"
    /\ result' = evaluate_resume(openai_client, resume_data, job_requirements,
                                 tfidf_reply, judge_reply, suggest_reply)
    /\ pc' = "done"
    /\ Frame

CalculateHardMatchScore ==
    /\ pc = "call"
    /\ op = "calculate_hard_match_score"
    /\ result' = calculate_hard_match_score(resume_data, job_requirements)
    /\ pc' = "done"
    /\ Frame

IdentifyMissingSkills ==
    /\ pc = "call"
    /\ op = "identify_missing_skills"
    /\ result' = identify_missing_skills(resume_data, job_requirements)
    /\ pc' = "done"
    /\ Frame

DetermineVerdict ==
    /\ pc = "call"
    /\ op = "determine_verdict"
    /\ result' = Return(determine_verdict(relevance_arg))
    /\ pc' = "done"
    /\ Frame

GenerateImprovementSuggestions ==
    /\ pc = "call"
    /\ op = "generate_improvement_suggestions"
    /\ result' = Return(generate_improvement_suggestions(openai_client, suggest_reply))
    /\ pc' = "done"
    /\ Frame

AnalyzeResumeSemantic ==
    /\ pc = "call"
    /\ op = "analyze_resume_semantic"
    /\ result' = Return(analyze_resume_semantic(openai_client, judge_reply))
    /\ pc' = "done"
    /\ Frame

CalculateSemanticMatchScore ==
    /\ pc = "call"
    /\ op = "calculate_semantic_match_score"
    /\ result' = Return(calculate_semantic_match_score(resume_data, tfidf_reply))
    /\ pc' = "done"
    /\ Frame

Next ==
    \/ EvaluateResume
    \/ CalculateHardMatchScore
    \/ IdentifyMissingSkills
    \/ DetermineVerdict
    \/ GenerateImprovementSuggestions
    \/ AnalyzeResumeSemantic
    \/ CalculateSemanticMatchScore

Spec == Init /\ [][Next]_vars

-----------------------------------------------------------------------------
(* batch_processor.py: one call of BatchProcessor.process_resume_batch *)

Files == 0..(total_files - 1)

\* states of a future
NotSubmitted == [state |-> "none"]
Queued == [state |-> "pending"]
Running == [state |-> "running"]
Finished(outcome) == [state |-> "finished", outcome |-> outcome]

FileName(i) == <<"resume", i>>

\* a worker that moved on to the next step of _process_single_resume
Moved(w, at) == [worker EXCEPT ![w].at = at]
\* a worker whose task ended
Released(w) == [worker EXCEPT ![w] = Idle]
\* the future of the task a worker ran, once the task returned or raised
Resolved(w, outcome) == [future EXCEPT ![worker[w].item] = Finished(outcome)]

scorer_vars == <<openai_client, op, resume_data, job_requirements, relevance_arg,
                 tfidf_reply, judge_reply, suggest_reply, calls, job_text,
                 auth_vars>>
caller_vars == <<pc, result, total_files, max_workers, next_file, results,
                 completed, progress>>

\* a pool that starts one thread per submitted task
pool_threads_per_task(configured, submitted) == Max(configured, submitted)

\* line 49, ThreadPoolExecutor(max_workers=self.max_workers): the pool runs at
\* most the configured number of threads, however many tasks are submitted
pool_threads(configured, submitted) == configured

InitBatch ==
    /\ op = "process_resume_batch"
    /\ pc = "call"
    /\ result = Pending
    /\ openai_client \in BOOLEAN
    /\ NoArgs
    /\ judge_reply = NotCalled
    /\ suggest_reply = NotCalled
    /\ total_files \in 0..NumFiles
    /\ max_workers \in 1..MaxWorkers
    /\ next_file = 0
    /\ work_queue = <<>>
    /\ worker = [w \in 1..pool_threads(max_workers, total_files) |-> Idle]
    /\ future = [i \in Files |-> NotSubmitted]
    /\ results = <<>>
    /\ completed = 0
    /\ progress = <<>>
    /\ fitted_by = NoItem
    /\ saved_resumes = {}
    /\ saved_evaluations = {}
    /\ calls = <<>>
    /\ job_text = NoJobText
    /\ NoAuth

\* lines 24-26, 49: look the job up; give up when there is none, else open
\* the pool
GetJob ==
    /\ op = "process_resume_batch"
    /\ pc = "call"
    /\ \E job_details \in {"none", "row"} :
          IF job_details = "none"
          THEN pc' = "done" /\ result' = Return([error |-> "Job not found"])
          ELSE pc' = "pool" /\ UNCHANGED result
    /\ UNCHANGED <<scorer_vars, batch_vars>>

\* lines 52-57: executor.submit of the next file
Submit ==
    /\ pc = "pool"
    /\ next_file < total_files
    /\ future' = [future EXCEPT ![next_file] = Queued]
    /\ work_queue' = Append(work_queue, next_file)
    /\ next_file' = next_file + 1
    /\ UNCHANGED <<scorer_vars, pc, result, total_files, max_workers, worker,
                   results, completed, progress, fitted_by, saved_resumes,
                   saved_evaluations>>

\* a worker thread of the pool takes the oldest queued task; line 97
StartTask ==
    /\ work_queue # <<>>
    /\ \E w \in DOMAIN worker :
          /\ worker[w].at = "idle"
          /\ worker' = [worker EXCEPT ![w] = [item |-> Head(work_queue),
                                               at |-> "extract"]]
    /\ future' = [future EXCEPT ![Head(work_queue)] = Running]
    /\ work_queue' = Tail(work_queue)
    /\ UNCHANGED <<scorer_vars, caller_vars, fitted_by, saved_resumes,
                   saved_evaluations>>

\* lines 100-102: process_uploaded_file returns the resume data or None
ExtractText ==
    /\ \E w \in DOMAIN worker :
          /\ worker[w].at = "extract"
          /\ \E extracted \in BOOLEAN :
                IF extracted
                THEN worker' = Moved(w, "save_resume") /\ UNCHANGED future
                ELSE /\ worker' = Released(w)
                     /\ future' = Resolved(w, Raise("Failed to extract text from resume"))
    /\ UNCHANGED <<scorer_vars, caller_vars, work_queue, fitted_by,
                   saved_resumes, saved_evaluations>>

\* SaveResume without the check of the returned id: the task goes on to the
\* evaluation whether or not the resume was saved
SaveResumeUnchecked ==
    /\ \E w \in DOMAIN worker :
          /\ worker[w].at = "save_resume"
          /\ worker' = Moved(w, "fit")
          /\ \E saved \in BOOLEAN :
                saved_resumes' = IF saved THEN saved_resumes \cup {worker[w].item}
                                 ELSE saved_resumes
    /\ UNCHANGED <<scorer_vars, caller_vars, work_queue, future, fitted_by,
                   saved_evaluations>>

\* lines 105-116: save_resume returns the row id or None
SaveResume ==
    /\ \E w \in DOMAIN worker :
          /\ worker[w].at = "save_resume"
          /\ \E saved \in BOOLEAN :
                IF saved
                THEN /\ worker' = Moved(w, "fit")
                     /\ saved_resumes' = saved_resumes \cup {worker[w].item}
                     /\ UNCHANGED future
                ELSE /\ worker' = Released(w)
                     /\ future' = Resolved(w, Raise("Failed to save resume to database"))
                     /\ UNCHANGED saved_resumes
    /\ UNCHANGED <<scorer_vars, caller_vars, work_queue, fitted_by,
                   saved_evaluations>>

\* line 119 -> scoring_engine.py line 128, first half of fit_transform: the
\* vectorizer of the shared scorer learns the vocabulary and the weights of
\* this file's two documents
FitVectorizer ==
    /\ \E w \in DOMAIN worker :
          /\ worker[w].at = "fit"
          /\ fitted_by' = worker[w].item
          /\ worker' = Moved(w, "transform")
    /\ UNCHANGED <<scorer_vars, caller_vars, work_queue, future, saved_resumes,
                   saved_evaluations>>

\* scoring_engine.py line 128, second half of fit_transform: the documents
\* are weighted with whatever the vectorizer holds now; with another file's
\* fit the score is wrong or the call raises and 50 is used (lines 136-138)
TransformDocuments ==
    /\ \E w \in DOMAIN worker :
          /\ worker[w].at = "transform"
          /\ worker' = [worker EXCEPT ![w] =
                [item |-> worker[w].item, at |-> "judge", lexical_fit |-> fitted_by]]
    /\ UNCHANGED <<scorer_vars, caller_vars, work_queue, future, fitted_by,
                   saved_resumes, saved_evaluations>>

\* scoring_engine.py line 204 -> nlp_processor.py lines 206-267: without a
\* client the fallback is returned at once; with one, the completion request
\* is answered (or fails) or it never comes back
CallJudge ==
    /\ \E w \in DOMAIN worker :
          /\ worker[w].at = "judge"
          /\ \E responds \in IF openai_client THEN BOOLEAN ELSE {TRUE} :
                worker' = Moved(w, IF responds THEN "suggest" ELSE "stalled")
    /\ UNCHANGED <<scorer_vars, caller_vars, work_queue, future, fitted_by,
                   saved_resumes, saved_evaluations>>

\* scoring_engine.py line 228 -> nlp_processor.py lines 271-325: the same
\* for the completion request of generate_improvement_suggestions
CallSuggestions ==
    /\ \E w \in DOMAIN worker :
          /\ worker[w].at = "suggest"
          /\ \E responds \in IF openai_client THEN BOOLEAN ELSE {TRUE} :
                worker' = Moved(w, IF responds THEN "save_evaluation" ELSE "stalled")
    /\ UNCHANGED <<scorer_vars, caller_vars, work_queue, future, fitted_by,
                   saved_resumes, saved_evaluations>>

\* lines 124-145: save_evaluation returns the row id or None
SaveEvaluation ==
    /\ \E w \in DOMAIN worker :
          /\ worker[w].at = "save_evaluation"
          /\ worker' = Released(w)
          /\ \E saved \in BOOLEAN :
                IF saved
                THEN /\ saved_evaluations' = saved_evaluations \cup {worker[w].item}
                     /\ future' = Resolved(w, Return(
                            [resume_id |-> worker[w].item,
                             evaluation_id |-> worker[w].item,
                             lexical_fit |-> worker[w].lexical_fit]))
                ELSE /\ future' = Resolved(w, Raise("Failed to save evaluation to database"))
                     /\ UNCHANGED saved_evaluations
    /\ UNCHANGED <<scorer_vars, caller_vars, work_queue, fitted_by, saved_resumes>>

\* result_entry that reports every file as a success
result_entry_success(index, outcome) ==
    [index |-> index, filename |-> FileName(index), status |-> "success",
     result |-> outcome]

\* lines 64-78: the entry appended for a finished future
result_entry(index, outcome) ==
    IF outcome.raised
    THEN [index |-> index, filename |-> FileName(index), status |-> "error",
          error |-> outcome.exc]
    ELSE [index |-> index, filename |-> FileName(index), status |-> "success",
          result |-> outcome.value]

\* Collect that counts and reports a file only when its task succeeded
CollectCountingSuccesses ==
    /\ pc = "pool"
    /\ next_file = total_files
    /\ \E i \in Files :
          /\ future[i].state = "finished"
          /\ \A k \in 1..Len(results) : results[k].index # i
          /\ results' = Append(results, result_entry(i, future[i].outcome))
          /\ IF future[i].outcome.raised
             THEN UNCHANGED <<completed, progress>>
             ELSE /\ completed' = completed + 1
                  /\ progress' = Append(progress,
                                        <<completed + 1, total_files, FileName(i)>>)
    /\ UNCHANGED <<scorer_vars, pc, result, total_files, max_workers, next_file,
                   work_queue, worker, future, fitted_by, saved_resumes,
                   saved_evaluations>>

\* lines 61-82: as_completed yields a finished future that it has not
\* yielded yet; its entry is appended and the progress callback is called
Collect ==
    /\ pc = "pool"
    /\ next_file = total_files
    /\ \E i \in Files :
          /\ future[i].state = "finished"
          /\ \A k \in 1..Len(results) : results[k].index # i
          /\ results' = Append(results, result_entry(i, future[i].outcome))
          /\ progress' = Append(progress, <<completed + 1, total_files, FileName(i)>>)
    /\ completed' = completed + 1
    /\ UNCHANGED <<scorer_vars, pc, result, total_files, max_workers, next_file,
                   work_queue, worker, future, fitted_by, saved_resumes,
                   saved_evaluations>>

\* line 85: list.sort by the index key (stable)
RECURSIVE sort_by_index(_)
sort_by_index(entries) ==
    IF entries = <<>> THEN <<>>
    ELSE LET last == entries[Len(entries)]
             front == sort_by_index(SubSeq(entries, 1, Len(entries) - 1))
         IN  SelectSeq(front, LAMBDA e : e.index <= last.index)
             \o <<last>>
             \o SelectSeq(front, LAMBDA e : e.index > last.index)

\* lines 83-92: every future was yielded, the pool is shut down, the
\* results are sorted and the summary is returned
ReturnBatch ==
    /\ pc = "pool"
    /\ next_file = total_files
    /\ Len(results) = total_files
    /\ LET sorted == sort_by_index(results)
       IN  /\ results' = sorted
           /\ result' = Return([
                 total_processed |-> total_files,
                 successful |-> Len(SelectSeq(sorted, LAMBDA r : r.status = "success")),
                 failed |-> Len(SelectSeq(sorted, LAMBDA r : r.status = "error")),
                 results |-> sorted])
    /\ pc' = "done"
    /\ UNCHANGED <<scorer_vars, total_files, max_workers, next_file, work_queue,
                   worker, future, completed, progress, fitted_by, saved_resumes,
                   saved_evaluations>>

NextBatch ==
    \/ GetJob
    \/ Submit
    \/ StartTask
    \/ ExtractText
    \/ SaveResume
    \/ FitVectorizer
    \/ TransformDocuments
    \/ CallJudge
    \/ CallSuggestions
    \/ SaveEvaluation
    \/ Collect
    \/ ReturnBatch

SpecBatch == InitBatch /\ [][NextBatch]_vars

\* the scheduler is fair to every thread that can take a step
FairBatch == SpecBatch /\ WF_vars(NextBatch)

-----------------------------------------------------------------------------
(* nlp_processor.py: a sequence of extractor calls in one process *)

\* the texts the extractors are called with
ExtractorTexts ==
    {ScenarioText,
     Text({}, <<>>, {}, {}),
     Text({"python"}, <<"Node JS">>, {1}, {"diploma"}),
     Text({"aws", "sql"}, <<"AWS">>, {2, 4}, {"bachelors", "masters"})}

Call(fn, text, value) == [fn |-> fn, text |-> text, value |-> value]

InitExtract ==
    /\ op = "extractors"
    /\ pc = "call"
    /\ result = Pending
    /\ openai_client = FALSE
    /\ NoArgs
    /\ judge_reply = NotCalled
    /\ suggest_reply = NotCalled
    /\ NoBatch
    /\ calls = <<>>
    /\ job_text = NoJobText
    /\ NoAuth

ExtractFrame ==
    UNCHANGED <<openai_client, op, pc, resume_data, job_requirements,
                relevance_arg, tfidf_reply, judge_reply, suggest_reply, result,
                batch_vars, job_text, auth_vars>>

\* nlp_processor.py lines 37-55
ExtractSkillsFromText ==
    /\ op = "extractors"
    /\ Len(calls) < MaxCalls
    /\ \E text \in ExtractorTexts :
          calls' = Append(calls, Call("extract_skills_from_text", text,
                                      extract_skills_from_text(text)))
    /\ ExtractFrame

\* nlp_processor.py lines 57-75
ExtractExperienceYears ==
    /\ op = "extractors"
    /\ Len(calls) < MaxCalls
    /\ \E text \in ExtractorTexts :
          calls' = Append(calls, Call("extract_experience_years", text,
                                      extract_experience_years(text)))
    /\ ExtractFrame

\* nlp_processor.py lines 77-102
ExtractEducationLevel ==
    /\ op = "extractors"
    /\ Len(calls) < MaxCalls
    /\ \E text \in ExtractorTexts :
          calls' = Append(calls, Call("extract_education_level", text,
                                      extract_education_level(text)))
    /\ ExtractFrame

\* scoring_engine.py lines 18, 59, 75: an evaluation in between calls the
\* three extractors on its resume text
HardMatchBetween ==
    /\ op = "extractors"
    /\ Len(calls) < MaxCalls
    /\ \E text \in ExtractorTexts :
          calls' = calls \o
            <<Call("extract_skills_from_text", text, extract_skills_from_text(text)),
              Call("extract_experience_years", text, extract_experience_years(text)),
              Call("extract_education_level", text, extract_education_level(text))>>
    /\ ExtractFrame

NextExtract ==
    \/ ExtractSkillsFromText
    \/ ExtractExperienceYears
    \/ ExtractEducationLevel
    \/ HardMatchBetween

SpecExtract == InitExtract /\ [][NextExtract]_vars

-----------------------------------------------------------------------------
(* nlp_processor.py: one call of parse_job_description_rule_based *)

JobSkillOrder == <<"python", "sql", "aws", "node.js", "java", "docker", "react">>

\* the skills a job text may mention
JobSkillCount == Min(MaxJobSkills, Len(JobSkillOrder))

\* the skills one line mentions: the first or the last few of them
LineMentions ==
    {{JobSkillOrder[i] : i \in 1..k} : k \in 0..JobSkillCount}
    \cup {{JobSkillOrder[i] : i \in k..JobSkillCount} : k \in 1..JobSkillCount}

JobLines ==
    {JobLine(indicator, mentions) :
        indicator \in {"none", "required", "preferred"}, mentions \in LineMentions}

JobTexts == {JobText(lines, {3}, {"bachelors"}) : lines \in SeqsUpTo(JobLines, MaxLines)}

\* the sets of skills that can be the first half of a list of the skills
Fronts(skills) ==
    {front \in SUBSET skills : Cardinality(front) = Cardinality(skills) \div 2}

InitParse ==
    /\ op = "parse_job_description_rule_based"
    /\ pc = "call"
    /\ result = Pending
    /\ openai_client = FALSE
    /\ NoArgs
    /\ judge_reply = NotCalled
    /\ suggest_reply = NotCalled
    /\ NoBatch
    /\ calls = <<>>
    /\ job_text \in JobTexts
    /\ NoAuth

ParseJobDescriptionRuleBased ==
    /\ pc = "call"
    /\ op = "parse_job_description_rule_based"
    /\ \E front \in Fronts(extract_skills_from_text(job_text)) :
          result' = Return(parse_job_description_rule_based(job_text, front))
    /\ pc' = "done"
    /\ Frame

SpecParse == InitParse /\ [][ParseJobDescriptionRuleBased]_vars

-----------------------------------------------------------------------------
(* auth.py: login_user, logout_user and check_authentication over          *)
(* st.session_state and the users and user_sessions tables, with the clock *)
(* passing and accounts being deactivated in between.                      *)

\* line 26, timedelta(hours=24)
SESSION_HOURS == 24

\* the keys login_user sets and logout_user deletes
AuthKeys == {"authenticated", "user_id", "username", "email", "location",
             "role", "session_token"}

\* what fetchone() returns when no row matches, and what a function of
\* database_postgres returns without a connection: None; ids start at 1
NoRow == [id |-> 0]

\* lines 7-10: the salt is left out, two hashes are equal iff the passwords are
hash_password(password) == <<"bcrypt", password>>

\* lines 12-14
verify_password(password, password_hash) ==
    password_hash = hash_password(password)

\* a row of the users table as register_user stores it
User(id, username, password, role) ==
    [id |-> id, username |-> username, email |-> <<username, "@example.org">>,
     password_hash |-> hash_password(password), location |-> "Hyderabad",
     role |-> role, is_active |-> TRUE]

RegisteredUsers ==
    [id \in {1, 2} |-> IF id = 1 THEN User(1, "alice", "alice-secret", "admin")
                       ELSE User(2, "bob", "bob-secret", "placement_team")]

\* what is typed into the login form
Usernames == {"alice", "bob", "mallory"}
Passwords == {"alice-secret", "bob-secret"}
\* values of generate_session_token()
Tokens == {"token-a", "token-b"}

\* database_postgres.py lines 408-424
get_user_by_username(table, username, connected) ==
    LET found == {id \in DOMAIN table :
                    table[id].username = username /\ table[id].is_active}
    IN  IF ~connected \/ found = {} THEN NoRow
        ELSE table[CHOOSE id \in found : TRUE]

\* database_postgres.py lines 429-451: the row is stored unless there is no
\* connection or the INSERT fails on the UNIQUE session_token
session_saved(sessions, session_token, connected) ==
    connected /\ \A s \in sessions : s.session_token # session_token

\* database_postgres.py lines 456-477
get_session(sessions, table, clock, session_token, connected) ==
    LET found == {s \in sessions : /\ s.session_token = session_token
                                   /\ s.expires_at > clock
                                   /\ table[s.user_id].is_active}
    IN  IF ~connected \/ found = {} THEN NoRow
        ELSE CHOOSE s \in found : TRUE

\* lines 29-35: the keys of a logged-in session
logged_in(state, user, session_token) ==
    [k \in DOMAIN state \cup AuthKeys |->
        CASE k = "authenticated" -> TRUE
          [] k = "user_id" -> user.id
          [] k = "username" -> user.username
          [] k = "email" -> user.email
          [] k = "location" -> user.location
          [] k = "role" -> user.role
          [] k = "session_token" -> session_token
          [] OTHER -> state[k]]

\* a logout that leaves the token behind
logout_user_keeping_token(state) ==
    [k \in DOMAIN state \ (AuthKeys \ {"session_token"}) |-> state[k]]

\* lines 57-72
logout_user(state) == [k \in DOMAIN state \ AuthKeys |-> state[k]]

\* lines 74-88: the session state it leaves and the value it returns
check_authentication(state, sessions, table, clock, connected) ==
    IF "authenticated" \notin DOMAIN state
    THEN [state |-> state, value |-> FALSE]
    ELSE IF "session_token" \notin DOMAIN state
    THEN [state |-> state, value |-> FALSE]
    ELSE IF get_session(sessions, table, clock, state.session_token,
                        connected) = NoRow
    THEN [state |-> logout_user(state), value |-> FALSE]
    ELSE [state |-> state, value |-> TRUE]

InitAuth ==
    /\ op = "render_login_page"
    /\ pc = "call"
    /\ result = Pending
    /\ openai_client = FALSE
    /\ NoArgs
    /\ judge_reply = NotCalled
    /\ suggest_reply = NotCalled
    /\ NoBatch
    /\ calls = <<>>
    /\ job_text = NoJobText
    /\ session_state = [k \in {} |-> ""]
    /\ users = RegisteredUsers
    /\ user_sessions = {}
    /\ now = 0
    /\ credentials = NoCredentials

AuthFrame ==
    UNCHANGED <<openai_client, resume_data, job_requirements, relevance_arg,
                tfidf_reply, judge_reply, suggest_reply, batch_vars, calls,
                job_text>>

\* lines 20-38
LoginUser ==
    /\ \E username \in Usernames, password \in Passwords, session_token \in Tokens,
          lookup_connected \in BOOLEAN, save_connected \in BOOLEAN :
          LET user == get_user_by_username(users, username, lookup_connected)
              verified == /\ user # NoRow
                          /\ verify_password(password, user.password_hash)
              expires_at == now + SESSION_HOURS
              session_id == IF session_saved(user_sessions, session_token,
                                             save_connected)
                            THEN Cardinality(user_sessions) + 1
                            ELSE 0
          IN  /\ credentials' = [username |-> username, password |-> password]
              /\ IF verified
                 THEN /\ user_sessions' =
                           IF session_id # 0
                           THEN user_sessions \cup
                                  {[id |-> session_id, user_id |-> user.id,
                                    session_token |-> session_token,
                                    expires_at |-> expires_at]}
                           ELSE user_sessions
                      /\ session_state' =
                           IF session_id # 0
                           THEN logged_in(session_state, user, session_token)
                           ELSE session_state
                      /\ result' = Return(session_id # 0)
                 ELSE /\ UNCHANGED <<user_sessions, session_state>>
                      /\ result' = Return(FALSE)
    /\ op' = "login_user"
    /\ pc' = "done"
    /\ UNCHANGED <<users, now>>
    /\ AuthFrame

\* lines 57-72
LogoutUser ==
    /\ session_state' = logout_user(session_state)
    /\ op' = "logout_user"
    /\ pc' = "done"
    /\ result' = Return("None")
    /\ UNCHANGED <<users, user_sessions, now, credentials>>
    /\ AuthFrame

\* lines 74-88
CheckAuthentication ==
    /\ \E connected \in BOOLEAN :
          LET checked == check_authentication(session_state, user_sessions,
                                              users, now, connected)
          IN  /\ session_state' = checked.state
              /\ result' = Return(checked.value)
    /\ op' = "check_authentication"
    /\ pc' = "done"
    /\ UNCHANGED <<users, user_sessions, now, credentials>>
    /\ AuthFrame

\* time passes: CURRENT_TIMESTAMP of database_postgres.py line 469 grows
Tick ==
    /\ now + TickHours <= MaxHours
    /\ now' = now + TickHours
    /\ op' = "time_passes"
    /\ pc' = "done"
    /\ result' = Pending
    /\ UNCHANGED <<session_state, users, user_sessions, credentials>>
    /\ AuthFrame

\* an account is deactivated: is_active of database_postgres.py line 101
\* becomes FALSE
DeactivateUser ==
    /\ \E id \in DOMAIN users :
          /\ users[id].is_active
          /\ users' = [users EXCEPT ![id].is_active = FALSE]
    /\ op' = "deactivate_user"
    /\ pc' = "done"
    /\ result' = Pending
    /\ UNCHANGED <<session_state, user_sessions, now, credentials>>
    /\ AuthFrame

NextAuth ==
    \/ LoginUser
    \/ LogoutUser
    \/ CheckAuthentication
    \/ Tick
    \/ DeactivateUser

SpecAuth == InitAuth /\ [][NextAuth]_vars

-----------------------------------------------------------------------------
(* Properties *)

Returned(name) == pc = "done" /\ op = name /\ ~result.raised

\* an evaluate_resume result other than the error result
IsErrorResult(r) == "error" \in DOMAIN r.evaluation_details
Evaluated == Returned("evaluate_resume") /\ ~IsErrorResult(result.value)

HasText == "extracted_text" \in DOMAIN resume_data

InRange(x) == 0 <= x /\ x <= Points(100)

\* C1: every result of evaluate_resume has its relevance_score, its
\* hard_match_score and its semantic_match_score in [0,100], whatever the
\* judge replied.
C1_ScoresInRange ==
    Returned("evaluate_resume") =>
        /\ InRange(result.value.relevance_score)
        /\ InRange(result.value.hard_match_score)
        /\ InRange(result.value.semantic_match_score)

\* C2: the verdict of every result of evaluate_resume is the tier of the
\* returned relevance_score: High iff it is >= 75, Medium iff it is in
\* [50, 75), Low iff it is < 50.
C2_VerdictOfReturnedScore ==
    Returned("evaluate_resume") =>
        LET r == result.value.relevance_score
            v == result.value.verdict
        IN  /\ (v = "High") <=> (r >= Points(75))
            /\ (v = "Medium") <=> (Points(50) <= r /\ r < Points(75))
            /\ (v = "Low") <=> (r < Points(50))

\* C3: determine_verdict is total with inclusive lower bounds: High for every
\* score >= 75, Medium for every score in [50, 75), Low below 50; so 75 is
\* High, 74.999 Medium, 50 Medium and 49.999 Low.
C3_VerdictThresholds ==
    Returned("determine_verdict") =>
        LET s == relevance_arg
            v == result.value
        IN  /\ v \in {"High", "Medium", "Low"}
            /\ (s >= Points(75)) => v = "High"
            /\ (Points(50) <= s /\ s < Points(75)) => v = "Medium"
            /\ (s < Points(50)) => v = "Low"
            /\ (s = Points(75)) => v = "High"
            /\ (s = Points(75) - Thousandth) => v = "Medium"
            /\ (s = Points(50)) => v = "Medium"
            /\ (s = Points(50) - Thousandth) => v = "Low"

\* determine_verdict has returned for the score 74.999
C3_Witness ==
    /\ Returned("determine_verdict")
    /\ relevance_arg = Points(75) - Thousandth
    /\ result.value = "Medium"

\* C4 as claimed: in every non-error result the returned relevance_score is
\* exactly 0.6 * the returned hard_match_score + 0.4 * the returned
\* semantic_match_score.
C4_ExactCombination ==
    Evaluated =>
        10 * result.value.relevance_score
            = 6 * result.value.hard_match_score
              + 4 * result.value.semantic_match_score

\* C4: in every non-error result the returned relevance_score differs from
\* 0.6 * returned hard_match_score + 0.4 * returned semantic_match_score by at
\* most 0.01 (each of the three is rounded to two decimals on its own), and it
\* lies between the smaller and the larger of the two returned scores.
C4_CombinationUpToRounding ==
    Evaluated =>
        LET r == result.value.relevance_score
            h == result.value.hard_match_score
            c == result.value.semantic_match_score
        IN  /\ Abs(10 * r - (6 * h + 4 * c)) <= 10 * Cent
            /\ Min(h, c) <= r
            /\ r <= Max(h, c)

\* a non-error result whose three rounded scores do not satisfy the exact
\* equation, and whose hard and semantic scores are more than a point apart
C4_Witness ==
    /\ Evaluated
    /\ 10 * result.value.relevance_score
         # 6 * result.value.hard_match_score + 4 * result.value.semantic_match_score
    /\ result.value.hard_match_score
         > result.value.semantic_match_score + Points(1)

\* some step of the pipeline raises on the inputs of the call
StepRaises ==
    LET ai == analyze_resume_semantic(openai_client, judge_reply)
    IN  \/ calculate_hard_match_score(resume_data, job_requirements).raised
        \/ ai.type # "object"
        \/ /\ ai.type = "object"
           /\ Get(ai.fields, "semantic_score", Num(Points(50))).type # "number"
        \/ identify_missing_skills(resume_data, job_requirements).raised

\* C5: evaluate_resume always returns and never raises; when a step of the
\* pipeline raises it returns all three scores 0, verdict Low, no missing
\* skills, exactly one suggestion and an 'error' entry in evaluation_details.
C5_NeverPropagates ==
    (pc = "done" /\ op = "evaluate_resume") =>
        /\ ~result.raised
        /\ StepRaises =>
            /\ result.value.relevance_score = 0
            /\ result.value.hard_match_score = 0
            /\ result.value.semantic_match_score = 0
            /\ result.value.verdict = "Low"
            /\ result.value.missing_skills = <<>>
            /\ Len(result.value.improvement_suggestions) = 1
            /\ "error" \in DOMAIN result.value.evaluation_details

\* evaluate_resume has returned the error result for a resume whose hard
\* match raised KeyError
C5_Witness ==
    /\ pc = "done" /\ op = "evaluate_resume"
    /\ ~HasText
    /\ StepRaises
    /\ ~result.raised
    /\ result.value.evaluation_details = [error |-> "KeyError"]

\* the required job skills (by position) that some resume skill equals,
\* ignoring case, or matches above the fuzzy threshold
MatchedJobSkills(resume_skills, job_skills) ==
    {i \in 1..Len(job_skills) :
        \E rs \in resume_skills :
            \/ lower(rs) = lower(job_skills[i])
            \/ fuzz_ratio(lower(rs), lower(job_skills[i])) > FUZZY_THRESHOLD}

\* C6: on the end-to-end scenario calculate_hard_match_score gives required
\* 50, preferred 100, experience 100, education 100 and hard match 75, and
\* identify_missing_skills gives exactly [aws]; and for every resume and
\* non-empty required list the required score is 100 * (required job skills
\* with an exact or fuzzy match) / (required job skills).
C6_ScenarioAndSkillScore ==
    /\ (/\ Returned("calculate_hard_match_score")
        /\ resume_data = Resume(ScenarioText)
        /\ job_requirements = ScenarioJob) =>
            /\ result.value.scores.skills.required_score = Points(50)
            /\ result.value.scores.skills.preferred_score = Points(100)
            /\ result.value.scores.experience.score = Points(100)
            /\ result.value.scores.education.score = Points(100)
            /\ result.value.score = Points(75)
    /\ (/\ Returned("identify_missing_skills")
        /\ resume_data = Resume(ScenarioText)
        /\ job_requirements = ScenarioJob) =>
            result.value.missing_required_skills
                \o result.value.missing_preferred_skills = <<"aws">>
    /\ (/\ Returned("calculate_hard_match_score")
        /\ Len(job_requirements.required_skills) > 0) =>
            result.value.scores.skills.required_score * Len(job_requirements.required_skills)
                = Points(100) * Cardinality(MatchedJobSkills(
                      extract_skills_from_text(resume_data.extracted_text),
                      job_requirements.required_skills))

\* C7: the hard-match score returned by calculate_hard_match_score is
\* 0.5 * required + 0.2 * preferred + 0.2 * experience + 0.1 * education of
\* the sub-scores in the returned breakdown, and the four weights sum to 1.
C7_WeightedAggregate ==
    Returned("calculate_hard_match_score") =>
        LET b == result.value.scores
        IN  /\ 10 * result.value.score
                 = 5 * b.skills.required_score + 2 * b.skills.preferred_score
                   + 2 * b.experience.score + 1 * b.education.score
            /\ hard_weights.required_skills + hard_weights.preferred_skills
                 + hard_weights.experience + hard_weights.education = 10

\* calculate_hard_match_score has returned a breakdown with four different
\* sub-scores
C7_Witness ==
    /\ Returned("calculate_hard_match_score")
    /\ LET b == result.value.scores
       IN  Cardinality({b.skills.required_score, b.skills.preferred_score,
                        b.experience.score, b.education.score}) >= 3

\* C8: generate_improvement_suggestions never returns an empty list.
C8_SuggestionsNeverEmpty ==
    Returned("generate_improvement_suggestions") => Len(result.value) >= 1

\* the lexical score of the call, as calculate_semantic_match_score returns it
LexicalScore == calculate_semantic_match_score(resume_data, tfidf_reply)

\* C9 as claimed: without a client, evaluate_resume returns a non-error result
\* whose semantic_match_score is exactly 0.4 * lexical score + 0.6 * 50.
C9_FallbackExact ==
    (pc = "done" /\ op = "evaluate_resume" /\ ~openai_client /\ HasText) =>
        /\ Evaluated
        /\ 10 * result.value.semantic_match_score = 4 * LexicalScore + 6 * Points(50)

\* C9: without a client, evaluate_resume returns for a resume with text a
\* complete non-error result whose semantic_match_score is
\* 0.4 * lexical score + 0.6 * 50 rounded to two decimals, and lies in [30, 70].
C9_FallbackRounded ==
    (pc = "done" /\ op = "evaluate_resume" /\ ~openai_client /\ HasText) =>
        /\ Evaluated
        /\ result.value.evaluation_details.tfidf_semantic_score = LexicalScore
        /\ result.value.semantic_match_score
             = round2((4 * LexicalScore + 6 * Points(50)) \div 10)
        /\ Points(30) <= result.value.semantic_match_score
        /\ result.value.semantic_match_score <= Points(70)

\* evaluate_resume has returned without a client for a lexical score whose
\* blend with 50 has more than two decimals
C9_Witness ==
    /\ pc = "done" /\ op = "evaluate_resume" /\ ~openai_client /\ HasText
    /\ Evaluated
    /\ 10 * result.value.semantic_match_score # 4 * LexicalScore + 6 * Points(50)

\* the judge's reply is not a JSON object, or it has no semantic_score, or
\* its semantic_score is no number
MalformedJudgeReply ==
    /\ openai_client
    /\ judge_reply.kind = "json"
    /\ \/ judge_reply.value.type # "object"
       \/ /\ judge_reply.value.type = "object"
          /\ \/ "semantic_score" \notin DOMAIN judge_reply.value.fields
             \/ /\ "semantic_score" \in DOMAIN judge_reply.value.fields
                /\ judge_reply.value.fields.semantic_score.type # "number"

\* C10: when the judge's reply is malformed, evaluate_resume still returns a
\* non-error result, computed with the neutral score 50 for the judgment.
C10_MalformedJudgeNotFatal ==
    (pc = "done" /\ op = "evaluate_resume" /\ HasText /\ MalformedJudgeReply) =>
        /\ Evaluated
        /\ result.value.evaluation_details.combined_semantic_score
             = combined_semantic_score_of(LexicalScore, Points(50))

\* the service did not deliver a judgment: none is configured, the call or
\* the parse of its reply raised, the reply had no content, or the content is
\* no JSON object
NoJudgment ==
    \/ ~openai_client
    \/ judge_reply.kind \in {"raise", "empty"}
    \/ judge_reply.kind = "json" /\ judge_reply.value.type # "object"

\* the neutral judgment: score 50, a text, no strengths and no gaps
IsNeutralJudgment(j) ==
    /\ j.type = "object"
    /\ DOMAIN j.fields = {"semantic_score", "analysis", "strengths", "gaps"}
    /\ j.fields.semantic_score = Num(Points(50))
    /\ j.fields.analysis # ""
    /\ j.fields.strengths = <<>>
    /\ j.fields.gaps = <<>>

\* C11: analyze_resume_semantic never raises, and whenever no service is
\* configured or the call delivers no judgment it returns the neutral
\* judgment: semantic_score 50, an analysis text, empty strengths and gaps.
C11_NeutralJudgmentOnFailure ==
    (pc = "done" /\ op = "analyze_resume_semantic") =>
        /\ ~result.raised
        /\ NoJudgment => IsNeutralJudgment(result.value)

HardMatched == Returned("calculate_hard_match_score")

\* C15: with an empty required_skills list (or an empty preferred_skills
\* list) calculate_hard_match_score raises nothing and scores that category
\* 0, whatever the resume.
C15_EmptySkillListScoresZero ==
    (pc = "done" /\ op = "calculate_hard_match_score" /\ HasText) =>
        /\ ~result.raised
        /\ Get(job_requirements, "required_skills", <<>>) = <<>>
             => result.value.scores.skills.required_score = 0
        /\ Get(job_requirements, "preferred_skills", <<>>) = <<>>
             => result.value.scores.skills.preferred_score = 0

\* a resume with skills was scored against a job that requires no skill and
\* prefers one the resume has
C15_Witness ==
    /\ HardMatched
    /\ Get(job_requirements, "required_skills", <<>>) = <<>>
    /\ extract_skills_from_text(resume_data.extracted_text) # {}
    /\ result.value.scores.skills.required_score = 0
    /\ result.value.scores.skills.preferred_score = Points(100)

\* C16: the experience score is 100 when no experience is required, else
\* min(1, resume_years / required_years) * 100; it lies in [0,100] and fewer
\* resume years never score higher.
C16_ExperienceScore ==
    HardMatched =>
        LET e == result.value.scores.experience
            r == e.resume_years
            q == e.required_years
        IN  /\ r = extract_experience_years(resume_data.extracted_text)
            /\ q = Get(job_requirements, "experience_required", 0)
            /\ q = 0 => e.score = Points(100)
            /\ (q # 0 /\ r >= q) => e.score = Points(100)
            /\ (q # 0 /\ r < q) => e.score * q = r * Points(100)
            /\ InRange(e.score)
            /\ \A y \in 0..r : experience_score_of(y, q) <= e.score

\* a resume with some, but not all, of the required years was scored
C16_Witness ==
    /\ HardMatched
    /\ 0 < result.value.scores.experience.resume_years
    /\ result.value.scores.experience.resume_years
         < result.value.scores.experience.required_years
    /\ 0 < result.value.scores.experience.score
    /\ result.value.scores.experience.score < Points(100)

\* the order of the education levels
LevelNumber(l) ==
    CASE l = "unknown" -> 0 [] l = "high_school" -> 1 [] l = "diploma" -> 2
      [] l = "bachelors" -> 3 [] l = "masters" -> 4 [] l = "phd" -> 5
      [] OTHER -> 0

\* C17: the education score is 100 when the required level is unknown or the
\* resume's level is at least the required one, else resume level over
\* required level times 100, with unknown=0 < high_school=1 < diploma=2 <
\* bachelors=3 < masters=4 < phd=5; bachelors against masters is 75, unknown
\* against a real requirement is 0.
C17_EducationScore ==
    HardMatched =>
        LET e == result.value.scores.education
            r == LevelNumber(e.resume_level)
            q == LevelNumber(e.required_level)
        IN  /\ e.resume_level = extract_education_level(resume_data.extracted_text)
            /\ e.required_level = Get(job_requirements, "education_required", "unknown")
            /\ (q = 0 \/ r >= q) => e.score = Points(100)
            /\ (q # 0 /\ r < q) => e.score * q = r * Points(100)
            /\ (e.resume_level = "bachelors" /\ e.required_level = "masters")
                 => e.score = Points(75)
            /\ (e.resume_level = "unknown" /\ q # 0) => e.score = 0

\* a bachelors resume was scored 75 against a masters requirement
C17_Witness ==
    /\ HardMatched
    /\ result.value.scores.education.resume_level = "bachelors"
    /\ result.value.scores.education.required_level = "masters"
    /\ result.value.scores.education.score = Points(75)

\* no skill of the resume has a ratio above 80 with the job skill
IsMissing(skill) ==
    \A rs \in extract_skills_from_text(resume_data.extracted_text) :
        fuzz_ratio(lower(skill), lower(rs)) <= 80

RECURSIVE ExpectedMissing(_)
ExpectedMissing(job_skills) ==
    IF job_skills = <<>> THEN <<>>
    ELSE (IF IsMissing(Head(job_skills)) THEN <<lower(Head(job_skills))>> ELSE <<>>)
         \o ExpectedMissing(Tail(job_skills))

Elements(seq) == {seq[i] : i \in 1..Len(seq)}

\* C18: missing_skills of a non-error result is the missing required skills
\* followed by the missing preferred skills, each in the job's order (the
\* names in lower case); a job skill is in the list exactly when no resume
\* skill has a ratio above 80 with it.  identify_missing_skills returns the
\* two sub-lists.
C18_MissingSkillsList ==
    LET required == Get(job_requirements, "required_skills", <<>>)
        preferred == Get(job_requirements, "preferred_skills", <<>>)
    IN  /\ Evaluated =>
            /\ result.value.missing_skills
                 = ExpectedMissing(required) \o ExpectedMissing(preferred)
            /\ \A skill \in Elements(required) \cup Elements(preferred) :
                 lower(skill) \in Elements(result.value.missing_skills)
                    <=> IsMissing(skill)
        /\ Returned("identify_missing_skills") =>
            /\ result.value.missing_required_skills = ExpectedMissing(required)
            /\ result.value.missing_preferred_skills = ExpectedMissing(preferred)

\* evaluate_resume reported a missing required skill before a missing
\* preferred one and left out a required skill the resume spells differently
C18_Witness ==
    /\ Evaluated
    /\ job_requirements = Job(<<"node.js", "sql">>, <<"AWS">>, 2, "masters")
    /\ "node.js" \notin extract_skills_from_text(resume_data.extracted_text)
    /\ result.value.missing_skills = <<"sql", "aws">>

\* the job requirements with every lacking field set to its default
Defaulted(job) ==
    Job(Get(job, "required_skills", <<>>), Get(job, "preferred_skills", <<>>),
        Get(job, "experience_required", 0), Get(job, "education_required", "unknown"))

\* C19: for job requirements that lack fields evaluate_resume returns what
\* it returns for the same requirements with an empty list, 0 years or
\* unknown education in place of each lacking field; with a resume text and a
\* well-formed judgment that is a scored result whose details show the
\* defaults, not the error result.
C19_LackingFieldsDefaulted ==
    (pc = "done" /\ op = "evaluate_resume" /\ job_requirements \in IncompleteJobs) =>
        /\ result = evaluate_resume(openai_client, resume_data,
                                     Defaulted(job_requirements),
                                     tfidf_reply, judge_reply, suggest_reply)
        /\ (HasText /\ ~MalformedJudgeReply) => Evaluated
        /\ Evaluated =>
            LET h == result.value.evaluation_details.hard_match_details
                m == result.value.evaluation_details.missing_elements
            IN  /\ "required_skills" \notin DOMAIN job_requirements =>
                    /\ h.skills.required_score = 0
                    /\ m.missing_required_skills = <<>>
                /\ "preferred_skills" \notin DOMAIN job_requirements =>
                    /\ h.skills.preferred_score = 0
                    /\ m.missing_preferred_skills = <<>>
                /\ "experience_required" \notin DOMAIN job_requirements =>
                    /\ h.experience.required_years = 0
                    /\ h.experience.score = Points(100)
                    /\ m.experience_gap_years = 0
                /\ "education_required" \notin DOMAIN job_requirements =>
                    /\ h.education.required_level = "unknown"
                    /\ h.education.score = Points(100)
                    /\ ~m.education_gap

\* evaluate_resume scored a resume against job requirements with no field
C19_Witness ==
    /\ Evaluated
    /\ DOMAIN job_requirements = {}
    /\ result.value.hard_match_score = Points(30)
    /\ result.value.relevance_score > 0

\* C20: calculate_semantic_match_score never raises; when reading the text,
\* fitting the vectorizer or comparing the vectors fails it returns 50.
C20_LexicalFallback ==
    (pc = "done" /\ op = "calculate_semantic_match_score") =>
        /\ ~result.raised
        /\ (~HasText \/ tfidf_reply.raised) => result.value = Points(50)

\* the vectorizer raised on a resume that has a text, and 50 was returned
C20_Witness ==
    /\ Returned("calculate_semantic_match_score")
    /\ HasText
    /\ tfidf_reply.raised
    /\ result.value = Points(50)

\* process_resume_batch returned its summary (the job was found)
BatchReturned ==
    /\ Returned("process_resume_batch")
    /\ "results" \in DOMAIN result.value

\* the task of file i raised
TaskRaised(i) == future[i].state = "finished" /\ future[i].outcome.raised

\* C12: whichever files fail, the summary process_resume_batch returns has
\* exactly one entry per submitted file, in the order of the files, with
\* status error for the files whose processing raised and success for the
\* others, which were processed to the end; successful + failed =
\* total_processed = the number of files.
C12_FailuresIsolated ==
    BatchReturned =>
        LET r == result.value
        IN  /\ Len(r.results) = total_files
            /\ \A k \in 1..Len(r.results) :
                 /\ r.results[k].index = k - 1
                 /\ r.results[k].status \in {"success", "error"}
                 /\ r.results[k].status = "error" <=> TaskRaised(k - 1)
                 /\ r.results[k].status = "success" =>
                      /\ future[k - 1].state = "finished"
                      /\ k - 1 \in saved_resumes \cap saved_evaluations
            /\ r.total_processed = total_files
            /\ r.successful + r.failed = r.total_processed
            /\ r.failed = Cardinality({i \in Files : TaskRaised(i)})

\* a batch returned in which an earlier file failed, a later file succeeded
\* and the later file finished first
C12_Witness ==
    /\ BatchReturned
    /\ total_files >= 2
    /\ result.value.results[1].status = "error"
    /\ result.value.results[2].status = "success"
    /\ progress[1][3] = FileName(1)
    /\ result.value.successful = total_files - 1

\* C13: no evaluation finds another evaluation's fit in the vectorizer it
\* uses: while a worker is between its fit and its transform, the vectorizer
\* holds the fit of that worker's own file.
C13_OwnVectorizerPerEvaluation ==
    \A w \in DOMAIN worker :
        worker[w].at = "transform" => fitted_by = worker[w].item

\* C14: process_resume_batch eventually returns, also when completion
\* requests of some files never come back.
C14_BatchEventuallyReturns == <>(pc = "done")

C22_MatchedAtMostTotal ==
    HardMatched =>
        /\ result.value.scores.skills.matched_required
             <= Len(Get(job_requirements, "required_skills", <<>>))
        /\ result.value.scores.skills.matched_preferred
             <= Len(Get(job_requirements, "preferred_skills", <<>>))

\* C25: in one evaluation, for a non-empty required_skills list the
\* required-skill score is 100 exactly when missing_required_skills is
\* empty, and likewise for the preferred skills.
C25_ScoreAgreesWithMissing ==
    Evaluated =>
        LET h == result.value.evaluation_details.hard_match_details.skills
            m == result.value.evaluation_details.missing_elements
        IN  /\ Get(job_requirements, "required_skills", <<>>) # <<>> =>
                (h.required_score = Points(100) <=> m.missing_required_skills = <<>>)
            /\ Get(job_requirements, "preferred_skills", <<>>) # <<>> =>
                (h.preferred_score = Points(100) <=> m.missing_preferred_skills = <<>>)

\* the files whose task a worker is running
InFlight == {i \in Files : future[i].state = "running"}

\* the workers inside evaluate_resume
Evaluating ==
    {w \in DOMAIN worker :
        worker[w].at \in {"fit", "transform", "judge", "suggest", "stalled"}}

\* C23: at every moment of process_resume_batch at most max_workers tasks,
\* hence at most max_workers evaluations and external calls, are in flight.
C23_InFlightBounded ==
    /\ Cardinality(InFlight) <= max_workers
    /\ Cardinality(Evaluating) <= max_workers
    /\ \A w \in DOMAIN worker : worker[w].at # "idle" => worker[w].item \in InFlight
    /\ \A i \in InFlight : \E w \in DOMAIN worker : worker[w].item = i

\* every worker of the pool is inside an evaluation while a submitted file
\* waits in the queue
C23_Witness ==
    /\ op = "process_resume_batch"
    /\ Cardinality(Evaluating) = max_workers
    /\ Cardinality(InFlight) = max_workers
    /\ work_queue # <<>>

\* no line at or below a line with a section indicator mentions a skill
NoSectionCapturesSkill ==
    \A i \in 1..Len(job_text.lines) :
        (\E j \in 1..i : job_text.lines[j].indicator # "none")
            => job_text.lines[i].mentions \cap extract_skills_from_text(job_text) = {}

\* C24: when no section indicator of the job text captures a skill,
\* parse_job_description_rule_based returns every extracted skill as
\* required and no skill as preferred, however many skills there are.
C24_AllSkillsRequired ==
    (Returned("parse_job_description_rule_based") /\ NoSectionCapturesSkill) =>
        /\ result.value.required_skills = extract_skills_from_text(job_text)
        /\ result.value.preferred_skills = {}

DetailKeys ==
    {"hard_match_details", "tfidf_semantic_score", "ai_semantic_analysis",
     "combined_semantic_score", "scoring_weights", "missing_elements"}

\* C26: evaluation_details of a result of evaluate_resume has an 'error'
\* entry exactly when a step of the pipeline raised; then it has nothing
\* else, and otherwise it has the six detail entries and no 'error'.
C26_ErrorEntryIffRaised ==
    (pc = "done" /\ op = "evaluate_resume") =>
        LET details == result.value.evaluation_details
        IN  /\ "error" \in DOMAIN details <=> StepRaises
            /\ StepRaises => DOMAIN details = {"error"}
            /\ ~StepRaises => DOMAIN details = DetailKeys

\* evaluate_resume returned the error result because the judgment of a
\* resume with text was no JSON object
C26_Witness ==
    /\ pc = "done" /\ op = "evaluate_resume"
    /\ HasText
    /\ StepRaises
    /\ result.value.evaluation_details = [error |-> "AttributeError"]

\* the work of _process_single_resume that comes after save_resume
AfterSaveResume == {"fit", "transform", "judge", "suggest", "stalled", "save_evaluation"}

\* C27: an evaluation is attempted and saved only for a file whose resume
\* was saved; an entry has status success only if both rows were saved; a
\* file whose text extraction or save_resume failed gets an error entry and
\* no evaluation.
C27_EvaluationAfterResume ==
    /\ saved_evaluations \subseteq saved_resumes
    /\ \A w \in DOMAIN worker :
         worker[w].at \in AfterSaveResume => worker[w].item \in saved_resumes
    /\ fitted_by # NoItem => fitted_by \in saved_resumes
    /\ \A k \in 1..Len(results) :
         LET i == results[k].index
         IN  /\ results[k].status = "success" =>
                  i \in saved_resumes \cap saved_evaluations
             /\ i \notin saved_resumes =>
                  /\ results[k].status = "error"
                  /\ i \notin saved_evaluations
    /\ \A i \in Files :
         (TaskRaised(i) /\ future[i].outcome.exc
              \in {"Failed to extract text from resume",
                    "Failed to save resume to database"})
            => i \notin saved_resumes \cup saved_evaluations

\* a batch returned with one file whose save_resume failed, reported as an
\* error, and one file with both rows saved, reported as a success
C27_Witness ==
    /\ BatchReturned
    /\ \E k \in 1..Len(results) :
         /\ results[k].status = "error"
         /\ results[k].error = "Failed to save resume to database"
    /\ \E k \in 1..Len(results) :
         /\ results[k].status = "success"
         /\ results[k].index \in saved_evaluations

\* C28: the progress callback is called once per file, with completed = 1,
\* 2, ..., n in this order and total = n, whatever the order in which the
\* tasks finish and whichever fail; when the job is not found it is never
\* called and no file is processed.
C28_ProgressCallback ==
    op = "process_resume_batch" =>
        /\ \A k \in 1..Len(progress) :
             /\ progress[k][1] = k
             /\ progress[k][2] = total_files
             /\ pc = "pool" => progress[k][3] = FileName(results[k].index)
        /\ Len(progress) = Len(results)
        /\ BatchReturned =>
             /\ Len(progress) = total_files
             /\ \A i \in Files : \E k \in 1..Len(progress) : progress[k][3] = FileName(i)
        /\ (pc = "done" /\ ~BatchReturned) =>
             /\ result = Return([error |-> "Job not found"])
             /\ progress = <<>>
             /\ \A i \in Files : future[i] = NotSubmitted
             /\ saved_resumes = {} /\ saved_evaluations = {}

\* a batch returned after the callback was called for the second file
\* first, which had failed, and for the first file second
C28_Witness ==
    /\ BatchReturned
    /\ total_files = 2
    /\ progress = <<<<1, 2, FileName(1)>>, <<2, 2, FileName(0)>>>>
    /\ TaskRaised(1)
    /\ ~TaskRaised(0)

KnownLevels == {"unknown", "high_school", "diploma", "bachelors", "masters", "phd"}

UnknownRequirement ==
    /\ "education_required" \in DOMAIN job_requirements
    /\ job_requirements.education_required \notin KnownLevels

\* C29: an education_required that is none of the six level names counts as
\* unknown: for every resume the education score is 100, education_gap is
\* false and evaluate_resume returns no error result because of it.
C29_UnknownEducationName ==
    (pc = "done" /\ UnknownRequirement /\ HasText) =>
        /\ op = "calculate_hard_match_score" =>
             /\ ~result.raised
             /\ result.value.scores.education.score = Points(100)
        /\ op = "identify_missing_skills" =>
             /\ ~result.raised
             /\ ~result.value.education_gap
        /\ (op = "evaluate_resume" /\ ~MalformedJudgeReply) =>
             /\ Evaluated
             /\ result.value.evaluation_details.hard_match_details.education.score
                  = Points(100)
             /\ ~result.value.evaluation_details.missing_elements.education_gap

\* a resume without any education keyword was scored 100 against a free-text
\* education requirement
C29_Witness ==
    /\ HardMatched
    /\ UnknownRequirement
    /\ result.value.scores.education.resume_level = "unknown"
    /\ result.value.scores.education.required_level
         = "Bachelor's degree in Computer Science"
    /\ result.value.scores.education.score = Points(100)

\* the session store holds a session for the token that has not expired and
\* belongs to an active user
ValidSession(session_token) ==
    \E s \in user_sessions : /\ s.session_token = session_token
                             /\ s.expires_at > now
                             /\ users[s.user_id].is_active

NoAuthKeys == DOMAIN session_state \cap AuthKeys = {}

CheckedAs(value) == op = "check_authentication" /\ result.value = value

\* what holds after each call
AuthState ==
    /\ CheckedAs(TRUE) =>
          /\ "session_token" \in DOMAIN session_state
          /\ ValidSession(session_state.session_token)
    /\ op = "logout_user" => NoAuthKeys
    /\ CheckedAs(FALSE) => NoAuthKeys

\* what holds of each step: the session state comes to hold the
\* authenticated flag only in a login_user that returned True for an active
\* user whose password verified and whose session row was added; and with no
\* auth keys check_authentication returns False
AuthStep ==
    /\ (session_state' # session_state /\ "authenticated" \in DOMAIN session_state')
         => /\ op' = "login_user"
            /\ result'.value = TRUE
            /\ \E id \in DOMAIN users :
                  /\ users[id].username = credentials'.username
                  /\ users[id].is_active
                  /\ verify_password(credentials'.password, users[id].password_hash)
                  /\ session_state'.user_id = id
                  /\ \E s \in user_sessions' \ user_sessions :
                        /\ s.user_id = id
                        /\ s.session_token = session_state'.session_token
    /\ (NoAuthKeys /\ op' = "check_authentication") => result'.value = FALSE

\* C30: over any sequence of login_user, logout_user, session expiry and
\* check_authentication: check_authentication returns True only if the
\* session state holds a token with a non-expired session of an active user
\* in the store; the authenticated flag is set only by a login whose password
\* verified and whose session row was saved; after logout_user, or after a
\* check_authentication that found no valid session, no auth key is left,
\* and check_authentication returns False until the next successful login.
C30_AuthenticatedOnlyWithValidSession == []AuthState /\ [][AuthStep]_vars

\* check_authentication found the session of a logged-in user expired and
\* cleared the session state
C30_Witness ==
    /\ CheckedAs(FALSE)
    /\ NoAuthKeys
    /\ credentials = [username |-> "alice", password |-> "alice-secret"]
    /\ \E s \in user_sessions : s.user_id = 1 /\ s.expires_at <= now
    /\ users[1].is_active
    /\ Cardinality(user_sessions) = 1

=============================================================================
